---- MODULE Spec2Model ----
(***************************************************************************)
(* Model of ovos_phal_plugin_media_led/__init__.py: the MultiLED fan-out   *)
(* device, the MediaLedPlugin playback handlers, the _rainbow animation    *)
(* thread and the shutdown / atexit / signal paths.                        *)
(*                                                                         *)
(* Threads.  Bus handlers run on dispatch threads (Handlers).  The main    *)
(* thread runs explicit and atexit shutdown ("main"); the signal handler   *)
(* is a frame nested on the main thread ("sig"): while it is active the    *)
(* interrupted main frame makes no step.  Every attribute read or write    *)
(* of shared plugin state is one step; a MultiLED operation is two steps,  *)
(* acquiring the RLock and then running its body and releasing the lock.   *)
(***************************************************************************)
EXTENDS Integers, Sequences, FiniteSets, TLC

\* ------------------------------------------------------------------ bounds
MaxTasks == 2
PixN == 1
MaxSignals == 1
MaxPlays == 1

\* ------------------------------------------------------- program constants
DefaultFps == 60
DefaultNum == 28

Handlers == {"h1"}
Ctxs == Handlers \cup {"main", "sig"}
Tasks == 1..MaxTasks

\* Mutant of Max: the first argument, whichever is larger.
MaxLeft(a, b) == a

Max(a, b) == IF a >= b THEN a ELSE b

\* ------------------------------------------------------------ construction
NullLED(name) == [kind |-> "null", name |-> name, num_pixels |-> 0]

make_dotstar(num, hw) ==
    IF "dotstar" \in hw
    THEN [kind |-> "dotstar", name |-> "dotstar", num_pixels |-> num]
    ELSE NullLED("dotstar")

make_neopixel(num, hw) ==
    IF "neopixel" \in hw
    THEN [kind |-> "neopixel", name |-> "neopixel", num_pixels |-> num]
    ELSE NullLED("neopixel")

make_ledshim(num, hw) ==
    IF "ledshim" \in hw
    THEN [kind |-> "ledshim", name |-> "ledshim", num_pixels |-> num]
    ELSE NullLED("ledshim")

\* The list `drivers` built by MediaLedPlugin.__init__ from the feature flags.
BuildDrivers(s) ==
    LET d1 == IF s.use_dotstar THEN <<make_dotstar(s.ds_num_leds, s.hw)>> ELSE <<>>
        d2 == IF s.use_neopixel THEN <<make_neopixel(s.np_num_leds, s.hw)>> ELSE <<>>
        d3 == IF s.use_ledshim THEN <<make_ledshim(s.shim_num_leds, s.hw)>> ELSE <<>>
    IN  d1 \o d2 \o d3

\* bool(d): NullLED.__bool__ is False, LEDShimWrapper.__bool__ is True, and a
\* DotStar / NeoPixel pixel buffer is a sized container, false when empty.
Truthy(d) ==
    CASE d.kind = "null" -> FALSE
      [] d.kind = "ledshim" -> TRUE
      [] OTHER -> d.num_pixels > 0

\* Settings the plugin is started with (settings file plus the hardware found).
Setting(ds, np, sh, nds, nnp, nsh, fps, hw) ==
    [use_dotstar |-> ds, use_neopixel |-> np, use_ledshim |-> sh,
     ds_num_leds |-> nds, np_num_leds |-> nnp, shim_num_leds |-> nsh,
     fps |-> fps, hw |-> hw]

\* Playback is checked on one strip, at the default frame rate and at a frame
\* rate of 0, and on a plugin left without any driver.
Settings ==
    { Setting(TRUE, FALSE, FALSE, PixN, 0, 0, DefaultFps, {"dotstar"}),
      Setting(TRUE, FALSE, FALSE, PixN, 0, 0, 0, {"dotstar"}),
      Setting(TRUE, FALSE, FALSE, PixN, 0, 0, DefaultFps, {}) }

\* Shutdown is checked on two devices of different kinds and lengths, and on
\* a plugin with no backend enabled.
DownSettings ==
    { Setting(FALSE, TRUE, TRUE, 0, PixN, PixN + 1, DefaultFps, {"neopixel", "ledshim"}),
      Setting(FALSE, FALSE, FALSE, 0, 0, 0, DefaultFps, {}) }

\* ------------------------------------------------------------ bus messages
\* A JSON value of the "state" key: absent / None, a string (a sequence of
\* characters) or an integer.
NoneVal == [type |-> "none", s |-> <<>>, n |-> 0]
StrVal(s) == [type |-> "str", s |-> s, n |-> 0]
IntVal(n) == [type |-> "int", s |-> <<>>, n |-> n]

\* message.data: None / {} (has = FALSE) or a dict with its "state" entry.
NoData == [has |-> FALSE, state |-> NoneVal]
Data(v) == [has |-> TRUE, state |-> v]
Msg(topic, data) == [topic |-> topic, data |-> data]
NoMsg == Msg("", NoData)

UpperCase == <<"A", "D", "E", "G", "I", "L", "N", "O", "P", "S", "T", "U", "Y">>
LowerCase == <<"a", "d", "e", "g", "i", "l", "n", "o", "p", "s", "t", "u", "y">>

\* str.lower(), character by character
LowerChar(ch) ==
    IF \E i \in DOMAIN UpperCase : UpperCase[i] = ch
    THEN LowerCase[CHOOSE i \in DOMAIN UpperCase : UpperCase[i] = ch]
    ELSE ch
\* Mutant of Lower: the state is compared as sent.
LowerMissing(s) == s

Lower(s) == [i \in DOMAIN s |-> LowerChar(s[i])]

Digits == <<"0", "1", "2", "3", "4", "5", "6", "7", "8", "9">>

\* str(state) of a non-string value (one decimal digit here)
Str(v) == IF v.type = "int" THEN <<Digits[v.n + 1]>> ELSE <<"N", "o", "n", "e">>

\* state = (message.data or {}).get("state") or "", then str() if needed
StateOf(m) ==
    LET v == IF m.data.has THEN m.data.state ELSE NoneVal
        falsy == v.type = "none" \/ (v.type = "str" /\ v.s = <<>>)
                 \/ (v.type = "int" /\ v.n = 0)
    IN  IF falsy THEN <<>> ELSE IF v.type = "str" THEN v.s ELSE Str(v)

SPlaying == <<"p", "l", "a", "y", "i", "n", "g">>
SPaused == <<"p", "a", "u", "s", "e", "d">>
SStopped == <<"s", "t", "o", "p", "p", "e", "d">>

\* _on_player_state: the handler entered for a player.state message
OnPlayerState(m) ==
    LET st == Lower(StateOf(m))
    IN  IF st = SPlaying THEN "start_check"
        ELSE IF st \in {SPaused, SStopped} THEN "stop_check"
        ELSE "return"

StartTopics == {"ovos.common_play.play", "ovos.common_play.resume",
                "mycroft.audio.service.play", "mycroft.audio.service.resume"}
StopTopics == {"ovos.common_play.pause", "ovos.common_play.stop",
               "mycroft.audio.service.pause", "mycroft.audio.service.stop"}
StateTopic == "ovos.common_play.player.state"

\* The self.bus.on(...) table: where a message of each topic is handled.
Subscription(m) ==
    IF m.topic \in StartTopics THEN "start_check"
    ELSE IF m.topic \in StopTopics THEN "stop_check"
    ELSE OnPlayerState(m)

StatePayloads ==
    { NoData, Data(NoneVal), Data(IntVal(0)), Data(IntVal(5)), Data(StrVal(<<>>)),
      Data(StrVal(SPlaying)),
      Data(StrVal(<<"P", "L", "A", "Y", "I", "N", "G">>)),
      Data(StrVal(<<"P", "l", "a", "y", "i", "n", "g">>)),
      Data(StrVal(SPaused)),
      Data(StrVal(<<"P", "A", "U", "S", "E", "D">>)),
      Data(StrVal(<<"S", "t", "o", "p", "p", "e", "d">>)),
      Data(StrVal(<<"p", "l", "a", "y">>)),
      Data(StrVal(<<"i", "d", "l", "e">>)) }

Messages ==
    { Msg(t, NoData) : t \in StartTopics \cup StopTopics }
        \cup { Msg(StateTopic, d) : d \in StatePayloads }

VARIABLES
    devs,          \* devices constructed at start-up, in construction order
    faults,        \* per device: the methods whose call raises
    calls,         \* SpecFan: the device calls of the last MultiLED operation
    fps,           \* self.fps
    dstate,        \* per device: pixel buffer, frame on the hardware, releases
    playing,       \* self.playing
    stopEvent,     \* self._stop_event.is_set()
    animThread,    \* self._anim_thread (0 is None)
    shuttingDown,  \* self._shutting_down
    lock,          \* MultiLED._lock (RLock): owner and recursion count
    task,          \* animation threads: position in _rainbow
    ctx,           \* call frames of the handler threads, main thread, signal
    sigs,          \* termination signals delivered so far
    delivered,     \* bus messages delivered so far (counted in SpecDown)
    teardowns,     \* times the shutdown body ran MultiLED.close
    last           \* the last bus signal whose handler returned

vars == <<devs, faults, calls, fps, dstate, playing, stopEvent, animThread, shuttingDown,
          lock, task, ctx, sigs, delivered, teardowns, last>>

\* self.leds.drivers: the indices of the truthy devices (MultiLED.__init__).
Drivers == { i \in DOMAIN devs : Truthy(devs[i]) }

\* MultiLED.num_pixels
RECURSIVE MaxOver(_, _)
MaxOver(S, f) ==
    IF S = {} THEN 0
    ELSE LET i == CHOOSE j \in S : TRUE
         IN  Max(f[i].num_pixels, MaxOver(S \ {i}, f))

num_pixels == MaxOver(Drivers, devs)

\* num in _rainbow: max(1, self.leds.num_pixels or 28)
RainbowNum == Max(1, IF num_pixels = 0 THEN DefaultNum ELSE num_pixels)

\* --------------------------------------------------------------- the RLock
NoOwner == [kind |-> "none", c |-> "", t |-> 0]
CtxThread(c) == [kind |-> "ctx", c |-> IF c = "sig" THEN "main" ELSE c, t |-> 0]
TaskThread(t) == [kind |-> "task", c |-> "", t |-> t]

\* Mutant of CanAcquire: the lock never makes a thread wait.
CanAcquireAlways(me) == TRUE

CanAcquire(me) == lock.owner = NoOwner \/ lock.owner = me
\* Mutant of Released: leaving `with self._lock` does not hand the lock back.
ReleasedKeepsOwner == [owner |-> lock.owner, count |-> 1]

Acquired(me) == [owner |-> me, count |-> lock.count + 1]
Released ==
    IF lock.count = 1 THEN [owner |-> NoOwner, count |-> 0]
    ELSE [owner |-> lock.owner, count |-> lock.count - 1]

\* ------------------------------------------------ device-level operations
\* One call of a device method by MultiLED: the device, the method, the pixel
\* index (set-pixel only), the colour, and whether the call returned (ok) or
\* raised.
Call(i, m, x, col, ok) == [dev |-> i, m |-> m, x |-> x, col |-> col, ok |-> ok]

\* Whether method m of device i raises.  Besides the faults of the device, an
\* index outside a DotStar / NeoPixel strip raises IndexError; LEDShimWrapper
\* checks the range itself.
Raises(i, m, x) ==
    \/ m \in faults[i]
    \/ m \in {"setitem", "__setitem__"} /\ devs[i].kind # "ledshim"
         /\ x >= devs[i].num_pixels

\* What a call that returned did to its device: the pixel buffer, the frame
\* on the hardware (shown) and the number of releases.  LEDShimWrapper.clear
\* shows the cleared buffer itself.
Apply(st, c) ==
    LET i == c.dev IN
    IF ~c.ok THEN st
    ELSE CASE c.m = "fill" -> [st EXCEPT ![i].buf = c.col]
           [] c.m = "clear" ->
                IF devs[i].kind = "ledshim"
                THEN [st EXCEPT ![i].buf = "black", ![i].shown = "black"]
                ELSE [st EXCEPT ![i].buf = "black"]
           [] c.m = "show" ->
                [st EXCEPT ![i] = [buf |-> @.buf, shown |-> @.buf, rel |-> @.rel]]
           [] c.m \in {"setitem", "__setitem__", "set_pixel"} ->
                IF c.x < devs[i].num_pixels /\ c.col = "color"
                THEN [st EXCEPT ![i].buf = "color"] ELSE st
           [] c.m \in {"close", "deinit"} -> [st EXCEPT ![i].rel = @ + 1]
           [] OTHER -> st

RECURSIVE Effect(_, _)
Effect(st, tr) == IF tr = <<>> THEN st ELSE Effect(Apply(st, Head(tr)), Tail(tr))

\* self.drivers, in list order
DriverSeq == SelectSeq([i \in 1..Len(devs) |-> i], LAMBDA i : Truthy(devs[i]))

\* for d in self.drivers: <body>, each body guarded by its own try/except
RECURSIVE ForEach(_, _)
ForEach(body, seq) ==
    IF seq = <<>> THEN <<>> ELSE body[Head(seq)] \o ForEach(body, Tail(seq))

ShowOn(i) == <<Call(i, "show", 0, "", ~Raises(i, "show", 0))>>

\* MultiLED.show
ShowCalls == ForEach([i \in Drivers |-> ShowOn(i)], DriverSeq)

\* MultiLED.fill: d.fill(color) on every driver, then self.show()
FillCalls(col) ==
    LET FillOn(i) == <<Call(i, "fill", 0, col, ~Raises(i, "fill", 0))>>
    IN  ForEach([i \in Drivers |-> FillOn(i)], DriverSeq) \o ShowCalls

\* MultiLED.__setitem__: d[i] = color, else d.__setitem__, else d.set_pixel
SetItemCalls(x, col) ==
    LET SetOn(i) ==
          IF ~Raises(i, "setitem", x) THEN <<Call(i, "setitem", x, col, TRUE)>>
          ELSE <<Call(i, "setitem", x, col, FALSE)>> \o
               (IF ~Raises(i, "__setitem__", x)
                THEN <<Call(i, "__setitem__", x, col, TRUE)>>
                ELSE <<Call(i, "__setitem__", x, col, FALSE),
                       Call(i, "set_pixel", x, col, ~Raises(i, "set_pixel", x))>>)
    IN  ForEach([i \in Drivers |-> SetOn(i)], DriverSeq)

\* d.fill((0, 0, 0)), and d.clear() if that raises; ok is FALSE when d.clear()
\* raised too, so that the exception leaves the enclosing block.
BlackOn(i) ==
    IF ~Raises(i, "fill", 0)
    THEN [tr |-> <<Call(i, "fill", 0, "black", TRUE)>>, ok |-> TRUE]
    ELSE [tr |-> <<Call(i, "fill", 0, "black", FALSE),
                   Call(i, "clear", 0, "black", ~Raises(i, "clear", 0))>>,
          ok |-> ~Raises(i, "clear", 0)]

\* Mutant of ClearCalls: MultiLED.clear calls no driver.
NoClearCalls == <<>>

\* MultiLED.clear: per driver, black then show inside one try
ClearCalls ==
    LET ClearOn(i) == BlackOn(i).tr \o (IF BlackOn(i).ok THEN ShowOn(i) ELSE <<>>)
    IN  ForEach([i \in Drivers |-> ClearOn(i)], DriverSeq)

\* The first loop of MultiLED.close: it has no try of its own around
\* d.clear(), so a driver whose fill and clear both raise ends the loop.
RECURSIVE CloseBlack(_)
CloseBlack(seq) ==
    IF seq = <<>> THEN [tr |-> <<>>, ok |-> TRUE]
    ELSE LET b == BlackOn(Head(seq))
             rest == CloseBlack(Tail(seq))
         IN  IF b.ok THEN [tr |-> b.tr \o rest.tr, ok |-> rest.ok]
             ELSE [tr |-> b.tr, ok |-> FALSE]

\* The `finally` loop of MultiLED.close: d.close(), else d.deinit()
ReleaseOn(i) ==
    IF ~Raises(i, "close", 0) THEN <<Call(i, "close", 0, "", TRUE)>>
    ELSE <<Call(i, "close", 0, "", FALSE),
           Call(i, "deinit", 0, "", ~Raises(i, "deinit", 0))>>

\* MultiLED.close: black on every driver, show on every driver (skipped when
\* the first loop was left by an exception), then the releases.
CloseCalls ==
    LET black == CloseBlack(DriverSeq)
    IN  black.tr \o (IF black.ok THEN ShowCalls ELSE <<>>)
            \o ForEach([i \in Drivers |-> ReleaseOn(i)], DriverSeq)

\* Mutant of MultiClear: clearing leaves the devices as they are.
MultiClearNothing(st) == st

\* The MultiLED operations as state changes of the devices.
MultiSetItem(st, x) == Effect(st, SetItemCalls(x, "color"))
MultiShow(st) == Effect(st, ShowCalls)
MultiClear(st) == Effect(st, ClearCalls)
MultiClose(st) == Effect(st, CloseCalls)

Alive(t) == task[t].pc \notin {"unborn", "dead"}
Exited == ctx["main"].pc = "exited"
Idle(c) == ctx[c].pc = "idle"

Frame(pc, t, ev, ret) == [pc |-> pc, t |-> t, ev |-> ev, ret |-> ret]

NoCalls == [op |-> "", tr |-> <<>>]

\* The plugin as constructed from one of the settings S, on devices whose
\* fault sets are among F.
InitWith(S, F) ==
    /\ \E s \in S :
         /\ devs = BuildDrivers(s)
         /\ fps = s.fps
    /\ faults \in [DOMAIN devs -> F]
    /\ calls = NoCalls
    /\ dstate = [i \in DOMAIN devs |-> [buf |-> "black", shown |-> "black", rel |-> 0]]
    /\ playing = FALSE
    /\ stopEvent = FALSE
    /\ animThread = 0
    /\ shuttingDown = FALSE
    /\ lock = [owner |-> NoOwner, count |-> 0]
    /\ task = [t \in Tasks |-> [pc |-> "unborn", x |-> 0]]
    /\ ctx = [c \in Ctxs |-> Frame("idle", 0, NoMsg, "")]
    /\ sigs = 0
    /\ delivered = 0
    /\ teardowns = 0
    /\ last = "none"

Init == InitWith(Settings, {{}})


\* ------------------------------------------------------- _rainbow (thread)
SetTask(t, pc, x) == task' = [task EXCEPT ![t] = [pc |-> pc, x |-> x]]

\* while not stop_event.is_set() and self.playing
LoopCondition == ~stopEvent /\ playing

TaskLoop(t) ==
    /\ ~Exited /\ task[t].pc = "loop"
    /\ IF LoopCondition THEN SetTask(t, "w", 0) ELSE SetTask(t, "fclear", 0)
    /\ UNCHANGED <<devs, faults, calls, fps, dstate, playing, stopEvent, animThread,
                   shuttingDown, lock, ctx, sigs, delivered, teardowns, last>>

\* Entering `with self._lock` of the MultiLED operation the thread is at.
TaskAcquire(t) ==
    /\ ~Exited /\ task[t].pc \in {"w", "show", "fclear", "fshow"}
    /\ CanAcquire(TaskThread(t))
    /\ lock' = Acquired(TaskThread(t))
    /\ SetTask(t, task[t].pc \o "_in", task[t].x)
    /\ UNCHANGED <<devs, faults, calls, fps, dstate, playing, stopEvent, animThread,
                   shuttingDown, ctx, sigs, delivered, teardowns, last>>

\* self.leds[x] = (r, g, b) for x in range(num)
TaskSetItem(t) ==
    /\ ~Exited /\ task[t].pc = "w_in"
    /\ dstate' = MultiSetItem(dstate, task[t].x)
    /\ lock' = Released
    /\ IF task[t].x + 1 < RainbowNum
       THEN SetTask(t, "w", task[t].x + 1)
       ELSE SetTask(t, "show", 0)
    /\ UNCHANGED <<devs, faults, calls, fps, playing, stopEvent, animThread,
                   shuttingDown, ctx, sigs, delivered, teardowns, last>>

\* self.leds.show() ending the frame
TaskShow(t) ==
    /\ ~Exited /\ task[t].pc = "show_in"
    /\ dstate' = MultiShow(dstate)
    /\ lock' = Released
    /\ SetTask(t, "sleep", 0)
    /\ UNCHANGED <<devs, faults, calls, fps, playing, stopEvent, animThread,
                   shuttingDown, ctx, sigs, delivered, teardowns, last>>

\* time.sleep(1.0 / self.fps): fps = 0 raises ZeroDivisionError, a negative
\* fps makes sleep raise ValueError; both leave the loop through `finally`.
TaskSleep(t) ==
    /\ ~Exited /\ task[t].pc = "sleep"
    /\ IF fps > 0 THEN SetTask(t, "loop", 0) ELSE SetTask(t, "fclear", 0)
    /\ UNCHANGED <<devs, faults, calls, fps, dstate, playing, stopEvent, animThread,
                   shuttingDown, lock, ctx, sigs, delivered, teardowns, last>>

\* finally: self.leds.clear()
TaskFinalClear(t) ==
    /\ ~Exited /\ task[t].pc = "fclear_in"
    /\ dstate' = MultiClear(dstate)
    /\ lock' = Released
    /\ SetTask(t, "fshow", 0)
    /\ UNCHANGED <<devs, faults, calls, fps, playing, stopEvent, animThread,
                   shuttingDown, ctx, sigs, delivered, teardowns, last>>

\* finally: self.leds.show(), after which the thread ends
TaskFinalShow(t) ==
    /\ ~Exited /\ task[t].pc = "fshow_in"
    /\ dstate' = MultiShow(dstate)
    /\ lock' = Released
    /\ SetTask(t, "dead", 0)
    /\ UNCHANGED <<devs, faults, calls, fps, playing, stopEvent, animThread,
                   shuttingDown, ctx, sigs, delivered, teardowns, last>>



\* ------------------------------------------------------------- call frames
\* A frame runs unless the process has exited; the main frame is suspended
\* while the signal handler runs on top of it.
Runnable(c) == ~Exited /\ (c = "main" => Idle("sig"))

IdleFrame == Frame("idle", 0, NoMsg, "")
Goto(c, pc) == ctx' = [ctx EXCEPT ![c].pc = pc]

\* Return of _handle_playing_started / _handle_playing_stopped: to the bus
\* (the handler thread is free again) or into shutdown, which goes on to
\* self.leds.clear().
ReturnFrom(c, sig) ==
    IF ctx[c].ret = "handler"
    THEN /\ ctx' = [ctx EXCEPT ![c] = IdleFrame]
         /\ last' = sig
    ELSE /\ ctx' = [ctx EXCEPT ![c].pc = "sd_clear", ![c].t = 0]
         /\ UNCHANGED last

\* A message arrives on a dispatch thread; n is the new count of messages.
Deliver(c, m, n) ==
    /\ c \in Handlers /\ Runnable(c) /\ Idle(c)
    /\ ctx' = [ctx EXCEPT ![c] = Frame("on_msg", 0, m, "handler")]
    /\ delivered' = n
    /\ UNCHANGED <<devs, faults, calls, fps, dstate, playing, stopEvent, animThread,
                   shuttingDown, lock, task, sigs, teardowns, last>>

\* The bus calls the subscribed handler; _on_player_state picks the branch.
Dispatch(c) ==
    /\ Runnable(c) /\ ctx[c].pc = "on_msg"
    /\ LET to == Subscription(ctx[c].ev)
       IN  IF to = "return"
           THEN ctx' = [ctx EXCEPT ![c] = IdleFrame]
           ELSE Goto(c, to)
    /\ UNCHANGED <<devs, faults, calls, fps, dstate, playing, stopEvent, animThread,
                   shuttingDown, lock, task, sigs, delivered, teardowns, last>>

\* ---------------------------------------------------- _handle_playing_started
\* if not self.leds.drivers or self.playing: return
\* Mutant of StartGuard: the check of self.leds.drivers is missing.
StartGuardNoDrivers == playing

\* Mutant of StartGuard: the check of self.playing is missing.
StartGuardNoPlaying == Drivers = {}

StartGuard == Drivers = {} \/ playing

HandleStartCheck(c) ==
    /\ Runnable(c) /\ ctx[c].pc = "start_check"
    /\ IF StartGuard
       THEN ReturnFrom(c, "start")
       ELSE /\ ctx' = [ctx EXCEPT ![c].pc = "start_flag", ![c].ev = NoMsg]
            /\ UNCHANGED last
    /\ UNCHANGED <<devs, faults, calls, fps, dstate, playing, stopEvent, animThread,
                   shuttingDown, lock, task, sigs, delivered, teardowns>>

\* self.playing = True
HandleStartFlag(c) ==
    /\ Runnable(c) /\ ctx[c].pc = "start_flag"
    /\ playing' = TRUE
    /\ Goto(c, "start_event")
    /\ UNCHANGED <<devs, faults, calls, fps, dstate, stopEvent, animThread,
                   shuttingDown, lock, task, sigs, delivered, teardowns, last>>

\* self._stop_event.clear()
HandleStartEvent(c) ==
    /\ Runnable(c) /\ ctx[c].pc = "start_event"
    /\ stopEvent' = FALSE
    /\ Goto(c, "start_spawn")
    /\ UNCHANGED <<devs, faults, calls, fps, dstate, playing, animThread,
                   shuttingDown, lock, task, sigs, delivered, teardowns, last>>

\* A thread object nobody runs or refers to any more.
FreeTask(t) ==
    /\ ~Alive(t)
    /\ animThread # t
    /\ \A c \in Ctxs : ctx[c].pc \in {"ax_dev", "idle"} \/ ctx[c].t # t

\* create_daemon(target=self._rainbow, args=(self._stop_event,)): the thread
\* is started before the handle is stored.
HandleStartSpawn(c) ==
    /\ Runnable(c) /\ ctx[c].pc = "start_spawn"
    /\ \E t \in Tasks :
         /\ FreeTask(t) /\ \A u \in Tasks : FreeTask(u) => t <= u
         /\ task' = [task EXCEPT ![t] = [pc |-> "loop", x |-> 0]]
         /\ ctx' = [ctx EXCEPT ![c].pc = "start_assign", ![c].t = t]
    /\ UNCHANGED <<devs, faults, calls, fps, dstate, playing, stopEvent, animThread,
                   shuttingDown, lock, sigs, delivered, teardowns, last>>

\* self._anim_thread = <the new thread>
HandleStartAssign(c) ==
    /\ Runnable(c) /\ ctx[c].pc = "start_assign"
    /\ animThread' = ctx[c].t
    /\ ReturnFrom(c, "start")
    /\ UNCHANGED <<devs, faults, calls, fps, dstate, playing, stopEvent,
                   shuttingDown, lock, task, sigs, delivered, teardowns>>

\* ---------------------------------------------------- _handle_playing_stopped
\* if not self.leds.drivers or not self.playing: return
StopGuard == Drivers = {} \/ ~playing

HandleStopCheck(c) ==
    /\ Runnable(c) /\ ctx[c].pc = "stop_check"
    /\ IF StopGuard
       THEN ReturnFrom(c, "stop")
       ELSE /\ ctx' = [ctx EXCEPT ![c].pc = "stop_flag", ![c].ev = NoMsg]
            /\ UNCHANGED last
    /\ UNCHANGED <<devs, faults, calls, fps, dstate, playing, stopEvent, animThread,
                   shuttingDown, lock, task, sigs, delivered, teardowns>>

\* self.playing = False
HandleStopFlag(c) ==
    /\ Runnable(c) /\ ctx[c].pc = "stop_flag"
    /\ playing' = FALSE
    /\ Goto(c, "stop_event")
    /\ UNCHANGED <<devs, faults, calls, fps, dstate, stopEvent, animThread,
                   shuttingDown, lock, task, sigs, delivered, teardowns, last>>

\* self._stop_event.set()
HandleStopEvent(c) ==
    /\ Runnable(c) /\ ctx[c].pc = "stop_event"
    /\ stopEvent' = TRUE
    /\ Goto(c, "stop_take")
    /\ UNCHANGED <<devs, faults, calls, fps, dstate, playing, animThread,
                   shuttingDown, lock, task, sigs, delivered, teardowns, last>>

\* t = self._anim_thread
HandleStopTake(c) ==
    /\ Runnable(c) /\ ctx[c].pc = "stop_take"
    /\ ctx' = [ctx EXCEPT ![c].pc = "stop_null", ![c].t = animThread]
    /\ UNCHANGED <<devs, faults, calls, fps, dstate, playing, stopEvent, animThread,
                   shuttingDown, lock, task, sigs, delivered, teardowns, last>>

\* self._anim_thread = None
HandleStopNull(c) ==
    /\ Runnable(c) /\ ctx[c].pc = "stop_null"
    /\ animThread' = 0
    /\ Goto(c, "stop_join")
    /\ UNCHANGED <<devs, faults, calls, fps, dstate, playing, stopEvent,
                   shuttingDown, lock, task, sigs, delivered, teardowns, last>>

\* if t and t.is_alive(): t.join(timeout=1.0) -- returns when the thread has
\* ended or when the second is over, whichever comes first.
HandleStopJoin(c) ==
    /\ Runnable(c) /\ ctx[c].pc = "stop_join"
    /\ ctx' = [ctx EXCEPT ![c].pc = "clear", ![c].t = 0]
    /\ UNCHANGED <<devs, faults, calls, fps, dstate, playing, stopEvent, animThread,
                   shuttingDown, lock, task, sigs, delivered, teardowns, last>>

\* Entering `with self._lock` of the MultiLED operation the frame is at.
LockPcs == {"clear", "sd_clear", "sd_show", "sd_close", "ax_clear"}

CtxAcquire(c) ==
    /\ Runnable(c) /\ ctx[c].pc \in LockPcs
    /\ CanAcquire(CtxThread(c))
    /\ lock' = Acquired(CtxThread(c))
    /\ Goto(c, ctx[c].pc \o "_in")
    /\ UNCHANGED <<devs, faults, calls, fps, dstate, playing, stopEvent, animThread,
                   shuttingDown, task, sigs, delivered, teardowns, last>>

\* self.leds.clear() ending _handle_playing_stopped
HandleStopClear(c) ==
    /\ Runnable(c) /\ ctx[c].pc = "clear_in"
    /\ dstate' = MultiClear(dstate)
    /\ lock' = Released
    /\ ReturnFrom(c, "stop")
    /\ UNCHANGED <<devs, faults, calls, fps, playing, stopEvent, animThread,
                   shuttingDown, task, sigs, delivered, teardowns>>


\* ----------------------------------------------------------------- shutdown
\* plugin.shutdown() called on the main thread: by the host ("explicit") or
\* as the first atexit hook of the exiting process ("atexit").
CallShutdown(how) ==
    /\ Runnable("main") /\ Idle("main")
    /\ ctx' = [ctx EXCEPT !["main"] = Frame("sd_check", 0, NoMsg, how)]
    /\ UNCHANGED <<devs, faults, calls, fps, dstate, playing, stopEvent, animThread,
                   shuttingDown, lock, task, sigs, delivered, teardowns, last>>

\* SIGTERM / SIGINT: _sig_handler runs self.shutdown() on top of whatever
\* the main thread is doing.
Signal ==
    /\ ~Exited /\ Idle("sig") /\ sigs < MaxSignals
    /\ sigs' = sigs + 1
    /\ ctx' = [ctx EXCEPT !["sig"] = Frame("sd_check", 0, NoMsg, "signal")]
    /\ UNCHANGED <<devs, faults, calls, fps, dstate, playing, stopEvent, animThread,
                   shuttingDown, lock, task, delivered, teardowns, last>>

\* Return of shutdown(): the signal handler and an explicit call are over,
\* the exiting process goes on to its next atexit hook, MultiLED.clear.
ShutdownReturn(c) ==
    IF ctx[c].ret = "atexit"
    THEN ctx' = [ctx EXCEPT ![c] = Frame("ax_clear", 0, NoMsg, "atexit")]
    ELSE ctx' = [ctx EXCEPT ![c] = IdleFrame]

\* if self._shutting_down: return
ShutdownGuard == shuttingDown

ShutdownCheck(c) ==
    /\ Runnable(c) /\ ctx[c].pc = "sd_check"
    /\ IF ShutdownGuard THEN ShutdownReturn(c) ELSE Goto(c, "sd_set")
    /\ UNCHANGED <<devs, faults, calls, fps, dstate, playing, stopEvent, animThread,
                   shuttingDown, lock, task, sigs, delivered, teardowns, last>>

\* self._shutting_down = True, then self._handle_playing_stopped(None)
ShutdownSet(c) ==
    /\ Runnable(c) /\ ctx[c].pc = "sd_set"
    /\ shuttingDown' = TRUE
    /\ Goto(c, "stop_check")
    /\ UNCHANGED <<devs, faults, calls, fps, dstate, playing, stopEvent, animThread,
                   lock, task, sigs, delivered, teardowns, last>>

\* self.leds.clear()
ShutdownClear(c) ==
    /\ Runnable(c) /\ ctx[c].pc = "sd_clear_in"
    /\ dstate' = MultiClear(dstate)
    /\ lock' = Released
    /\ Goto(c, "sd_show")
    /\ UNCHANGED <<devs, faults, calls, fps, playing, stopEvent, animThread,
                   shuttingDown, task, sigs, delivered, teardowns, last>>

\* self.leds.show()
ShutdownShow(c) ==
    /\ Runnable(c) /\ ctx[c].pc = "sd_show_in"
    /\ dstate' = MultiShow(dstate)
    /\ lock' = Released
    /\ Goto(c, "sd_close")
    /\ UNCHANGED <<devs, faults, calls, fps, playing, stopEvent, animThread,
                   shuttingDown, task, sigs, delivered, teardowns, last>>

\* self.leds.close(), then super().shutdown() and return
ShutdownClose(c) ==
    /\ Runnable(c) /\ ctx[c].pc = "sd_close_in"
    /\ dstate' = MultiClose(dstate)
    /\ lock' = Released
    /\ teardowns' = teardowns + 1
    /\ ShutdownReturn(c)
    /\ UNCHANGED <<devs, faults, calls, fps, playing, stopEvent, animThread,
                   shuttingDown, task, sigs, delivered, last>>

\* ------------------------------------------------------------ atexit hooks
\* Hooks run last-registered first: shutdown, MultiLED.clear, then the
\* per-device hooks of make_ledshim, make_neopixel, make_dotstar.
AtexitClear ==
    /\ Runnable("main") /\ ctx["main"].pc = "ax_clear_in"
    /\ dstate' = MultiClear(dstate)
    /\ lock' = Released
    /\ ctx' = [ctx EXCEPT !["main"].pc = "ax_dev", !["main"].t = Len(devs)]
    /\ UNCHANGED <<devs, faults, calls, fps, playing, stopEvent, animThread,
                   shuttingDown, task, sigs, delivered, teardowns, last>>

\* safe_clear(dev): fill black (or clear) and show, straight on the device
safe_clear(i) == BlackOn(i).tr \o (IF BlackOn(i).ok THEN ShowOn(i) ELSE <<>>)

\* safe_deinit(dev): deinit(), or close() if that raises
safe_deinit(i) ==
    IF ~Raises(i, "deinit", 0) THEN <<Call(i, "deinit", 0, "", TRUE)>>
    ELSE <<Call(i, "deinit", 0, "", FALSE),
           Call(i, "close", 0, "", ~Raises(i, "close", 0))>>

\* wrapper.clear() of LEDShimWrapper
WrapperClear(i) == <<Call(i, "clear", 0, "black", ~Raises(i, "clear", 0))>>

\* The hook a successful make_* registered for device i (none for NullLED).
DeviceHook(st, i) ==
    CASE devs[i].kind \in {"dotstar", "neopixel"} ->
           Effect(st, safe_clear(i) \o safe_deinit(i))
      [] devs[i].kind = "ledshim" -> Effect(st, WrapperClear(i))
      [] OTHER -> st

AtexitDevice ==
    /\ Runnable("main") /\ ctx["main"].pc = "ax_dev" /\ ctx["main"].t > 0
    /\ dstate' = DeviceHook(dstate, ctx["main"].t)
    /\ ctx' = [ctx EXCEPT !["main"].t = ctx["main"].t - 1]
    /\ UNCHANGED <<devs, faults, calls, fps, playing, stopEvent, animThread,
                   shuttingDown, lock, task, sigs, delivered, teardowns, last>>

\* The interpreter ends; daemon threads end with it.
ProcessExit ==
    /\ Runnable("main") /\ ctx["main"].pc = "ax_dev" /\ ctx["main"].t = 0
    /\ ctx' = [ctx EXCEPT !["main"] = Frame("exited", 0, NoMsg, "")]
    /\ UNCHANGED <<devs, faults, calls, fps, dstate, playing, stopEvent, animThread,
                   shuttingDown, lock, task, sigs, delivered, teardowns, last>>

\* ----------------------------------------------------------- specifications
\* The animation threads.
TaskStep ==
    \/ \E t \in Tasks : TaskLoop(t)
    \/ \E t \in Tasks : TaskAcquire(t)
    \/ \E t \in Tasks : TaskSetItem(t)
    \/ \E t \in Tasks : TaskShow(t)
    \/ \E t \in Tasks : TaskSleep(t)
    \/ \E t \in Tasks : TaskFinalClear(t)
    \/ \E t \in Tasks : TaskFinalShow(t)

\* _handle_playing_started on a dispatch thread.
StartStep ==
    \/ \E c \in Handlers : Dispatch(c)
    \/ \E c \in Handlers : HandleStartCheck(c)
    \/ \E c \in Handlers : HandleStartFlag(c)
    \/ \E c \in Handlers : HandleStartEvent(c)
    \/ \E c \in Handlers : HandleStartSpawn(c)
    \/ \E c \in Handlers : HandleStartAssign(c)

\* _handle_playing_stopped in the frames C.
StopStep(C) ==
    \/ \E c \in C : HandleStopCheck(c)
    \/ \E c \in C : HandleStopFlag(c)
    \/ \E c \in C : HandleStopEvent(c)
    \/ \E c \in C : HandleStopTake(c)
    \/ \E c \in C : HandleStopNull(c)
    \/ \E c \in C : HandleStopJoin(c)
    \/ \E c \in C : CtxAcquire(c)
    \/ \E c \in C : HandleStopClear(c)

\* Playback: every bus message, the handlers and the animation threads of a
\* plugin that is not being shut down.
Next ==
    \/ \E c \in Handlers, m \in Messages : Deliver(c, m, delivered)
    \/ StartStep
    \/ StopStep(Handlers)
    \/ TaskStep

Spec == Init /\ [][Next]_vars

\* Shutdown: playback is started from the bus and ended by shutdown(), which
\* is called explicitly, from the atexit hooks and from the signal handler.
PlayMessages == { Msg("ovos.common_play.play", NoData) }

\* At most MaxPlays play messages arrive.
DeliverPlay(c, m) == delivered < MaxPlays /\ Deliver(c, m, delivered + 1)

NextDown ==
    \/ \E c \in Handlers, m \in PlayMessages : DeliverPlay(c, m)
    \/ StartStep
    \/ StopStep({"main", "sig"})
    \/ TaskStep
    \/ \E how \in {"explicit", "atexit"} : CallShutdown(how)
    \/ Signal
    \/ \E c \in {"main", "sig"} : ShutdownCheck(c)
    \/ \E c \in {"main", "sig"} : ShutdownSet(c)
    \/ \E c \in {"main", "sig"} : ShutdownClear(c)
    \/ \E c \in {"main", "sig"} : ShutdownShow(c)
    \/ \E c \in {"main", "sig"} : ShutdownClose(c)
    \/ AtexitClear
    \/ AtexitDevice
    \/ ProcessExit

InitDown == InitWith(DownSettings, {{}})

SpecDown == InitDown /\ [][NextDown]_vars

\* The fan-out alone: one caller applies MultiLED operations to devices of
\* which any may raise in any of its methods.
FaultSets ==
    (SUBSET {"fill", "clear", "show", "close", "deinit"})
        \cup { {"setitem"}, {"setitem", "__setitem__"},
               {"setitem", "__setitem__", "set_pixel"} }

Colors == {"black", "color"}
Indices == 0..(PixN + 1)

\* MultiLED.close ends the life of the composite.
FanClosed == calls.op = "close"

FanOp(op, tr) ==
    /\ ~FanClosed
    /\ calls' = [op |-> op, tr |-> tr]
    /\ dstate' = Effect(dstate, tr)
    /\ UNCHANGED <<devs, faults, fps, playing, stopEvent, animThread,
                   shuttingDown, lock, task, ctx, sigs, delivered, teardowns, last>>

FanFill(col) == FanOp("fill", FillCalls(col))
FanSetItem(x, col) == FanOp("setitem", SetItemCalls(x, col))
FanShow == FanOp("show", ShowCalls)
FanClear == FanOp("clear", ClearCalls)
FanClose == FanOp("close", CloseCalls)

NextFan ==
    \/ \E col \in Colors : FanFill(col)
    \/ \E x \in Indices, col \in Colors : FanSetItem(x, col)
    \/ FanShow
    \/ FanClear
    \/ FanClose

InitFan == InitWith({Setting(FALSE, TRUE, TRUE, 0, PixN, PixN + 1, DefaultFps, {"neopixel", "ledshim"})}, FaultSets)

SpecFan == InitFan /\ [][NextFan]_vars

\* Playback on backends that are enabled, present, and configured with a
\* pixel count of 0 (the default of the *_num_leds settings).
ZeroSettings ==
    { Setting(FALSE, FALSE, TRUE, 0, 0, 0, DefaultFps, {"ledshim"}),
      Setting(TRUE, FALSE, FALSE, 0, 0, 0, DefaultFps, {"dotstar"}),
      Setting(FALSE, TRUE, FALSE, 0, 0, 0, DefaultFps, {"neopixel"}) }

InitZero == InitWith(ZeroSettings, {{}})

SpecZero == InitZero /\ [][Next]_vars

\* The whole plugin: every bus message and every way into shutdown, on a
\* plugin whose enabled backends all failed to construct, on one with no
\* backend enabled, and on one with a working strip.
PluginSettings ==
    { Setting(TRUE, TRUE, TRUE, PixN, PixN, PixN, DefaultFps, {}),
      Setting(FALSE, FALSE, FALSE, 0, 0, 0, DefaultFps, {}),
      Setting(TRUE, FALSE, FALSE, PixN, 0, 0, DefaultFps, {"dotstar"}) }

\* Any number of messages arrive at a plugin without an active driver, at
\* most MaxPlays at one with a driver.
DeliverAny(c, m) ==
    IF Drivers = {} THEN Deliver(c, m, delivered)
    ELSE delivered < MaxPlays /\ Deliver(c, m, delivered + 1)

NextPlugin ==
    \/ \E c \in Handlers, m \in Messages : DeliverAny(c, m)
    \/ StartStep
    \/ StopStep(Ctxs)
    \/ TaskStep
    \/ \E how \in {"explicit", "atexit"} : CallShutdown(how)
    \/ Signal
    \/ \E c \in {"main", "sig"} : ShutdownCheck(c)
    \/ \E c \in {"main", "sig"} : ShutdownSet(c)
    \/ \E c \in {"main", "sig"} : ShutdownClear(c)
    \/ \E c \in {"main", "sig"} : ShutdownShow(c)
    \/ \E c \in {"main", "sig"} : ShutdownClose(c)
    \/ AtexitClear
    \/ AtexitDevice
    \/ ProcessExit

InitPlugin == InitWith(PluginSettings, {{}})

SpecPlugin == InitPlugin /\ [][NextPlugin]_vars

\* num_pixels alone: the composite is built from every choice of feature
\* flags, pixel counts and hardware found, and its num_pixels is read.
PixelCounts == {0, 3, 5}

NumSettings ==
    { Setting(ds, np, sh, nds, nnp, nsh, DefaultFps, hw) :
        ds \in BOOLEAN, np \in BOOLEAN, sh \in BOOLEAN,
        nds \in PixelCounts, nnp \in PixelCounts, nsh \in PixelCounts,
        hw \in SUBSET {"dotstar", "neopixel", "ledshim"} }

\* self.leds.num_pixels, as read in __init__ and in _rainbow
ReadNumPixels ==
    /\ calls.op = ""
    /\ calls' = [op |-> "num_pixels", tr |-> <<>>, n |-> num_pixels]
    /\ UNCHANGED <<devs, faults, fps, dstate, playing, stopEvent, animThread,
                   shuttingDown, lock, task, ctx, sigs, delivered, teardowns, last>>

NextNum == ReadNumPixels

InitNum == InitWith(NumSettings, {{}})

SpecNum == InitNum /\ [][NextNum]_vars

\* ------------------------------------------------------------- scheduling
\* The steps of a thread that wait for nothing: a running animation thread
\* and a running call frame go on.  The process may end at any time, or never.
TaskRun(t) ==
    \/ TaskLoop(t) \/ TaskSetItem(t) \/ TaskShow(t) \/ TaskSleep(t)
    \/ TaskFinalClear(t) \/ TaskFinalShow(t)

FrameRun(c) ==
    \/ Dispatch(c)
    \/ HandleStartCheck(c) \/ HandleStartFlag(c) \/ HandleStartEvent(c)
    \/ HandleStartSpawn(c) \/ HandleStartAssign(c)
    \/ HandleStopCheck(c) \/ HandleStopFlag(c) \/ HandleStopEvent(c)
    \/ HandleStopTake(c) \/ HandleStopNull(c) \/ HandleStopJoin(c)
    \/ HandleStopClear(c)
    \/ ShutdownCheck(c) \/ ShutdownSet(c) \/ ShutdownClear(c)
    \/ ShutdownShow(c) \/ ShutdownClose(c)

\* One step of an animation thread, of a dispatch thread, and of the main
\* thread, on which the signal handler runs nested in the interrupted frame.
TaskThreadStep(t) == TaskRun(t) \/ TaskAcquire(t)
HandlerThreadStep(c) == FrameRun(c) \/ CtxAcquire(c)
MainThreadStep ==
    \/ FrameRun("main") \/ CtxAcquire("main")
    \/ FrameRun("sig") \/ CtxAcquire("sig")

\* Every thread that can go on does, and a thread waiting at the RLock gets
\* it once it has been free often enough: the animation thread gives the
\* lock up after every operation and sleeps between frames.
Scheduling ==
    /\ \A t \in Tasks : SF_vars(TaskThreadStep(t))
    /\ \A c \in Handlers : SF_vars(HandlerThreadStep(c))

\* Playback and shutdown with running threads.
SpecLive == Spec /\ Scheduling
SpecDownLive == SpecDown /\ Scheduling /\ SF_vars(MainThreadStep)

\* ================================================================== claims
Quiet == \A c \in Handlers : Idle(c)
Running == { t \in Tasks : Alive(t) }

\* C1 (as claimed): with an active driver, whenever no handler is at work an
\* animation thread is running if and only if the last signal processed was a
\* start -- also after a stop whose join timed out and after the animator
\* left its loop on its own.
C1_RunningIffLastStart ==
    (Quiet /\ Drivers # {}) => ((Running # {}) <=> (last = "start"))

\* C2 (as claimed): at most one animation thread is alive in every reachable
\* state.
C2_AtMostOneTask == Cardinality(Running) <= 1

\* C3: a start signal handled while playing is set, and a stop signal handled
\* while it is not, return at once: the step of the handler changes neither
\* the playing flag, the cancellation flag, the thread handle, the threads,
\* the lock nor any device.
C3_RedundantSignalNoOp ==
    [][\A c \in Handlers :
         ( /\ \/ ctx[c].pc = "start_check" /\ playing
              \/ ctx[c].pc = "stop_check" /\ ~playing
           /\ ctx'[c] # ctx[c] )
         => /\ ctx'[c] = IdleFrame
            /\ UNCHANGED <<playing, stopEvent, animThread, task, lock, dstate>>]_vars

\* C3 witness: a second start in a row is about to be handled while the
\* animation of the first is running.
C3_Witness ==
    \E c \in Handlers :
        /\ ctx[c].pc = "start_check" /\ playing /\ last = "start"
        /\ Running # {}

\* C4 (as claimed): however shutdown is invoked, the teardown that ends in
\* MultiLED.close runs at most once.
C4_TeardownOnce == teardowns <= 1

\* Positions in the call trace of the last MultiLED operation.
Trace == calls.tr
CallsOf(i, M) == { k \in DOMAIN Trace : Trace[k].dev = i /\ Trace[k].m \in M }
Releases == { k \in DOMAIN Trace : Trace[k].m \in {"close", "deinit"} }

\* C5 (as claimed): MultiLED.close calls fill (or clear) on every active
\* driver before the first close / deinit call on any driver, and calls close
\* on every active driver, whatever the drivers raise.
C5_CloseBlackBeforeRelease ==
    calls.op = "close" =>
        \A i \in Drivers :
            /\ \E k \in CallsOf(i, {"fill", "clear"}) : \A r \in Releases : k < r
            /\ CallsOf(i, {"close"}) # {}

\* A driver none of whose calls raised during the last operation.
Healthy(i) == \A k \in DOMAIN Trace : Trace[k].dev = i => Trace[k].ok

\* The methods each driver is due in one MultiLED operation.
StepsOf(op) ==
    CASE op = "fill" -> {"fill", "show"}
      [] op = "setitem" -> {"setitem"}
      [] op = "show" -> {"show"}
      [] op = "clear" -> {"fill", "show"}
      [] op = "close" -> {"fill", "show", "close"}
      [] OTHER -> {}

\* C6 (as claimed): in every fan-out operation, whichever drivers raise, every
\* driver that does not raise receives each step of the operation.
C6_FailureIsolation ==
    \A i \in Drivers :
        Healthy(i) => \A m \in StepsOf(calls.op) : CallsOf(i, {m}) # {}

\* C7 (as claimed): on a normal exit (no signal) no device is released more
\* than once by shutdown, MultiLED's exit hook and the device's own exit hook
\* together.
C7_ReleasedOnce == sigs = 0 => \A i \in DOMAIN devs : dstate[i].rel <= 1

\* The frames and threads that are inside a MultiLED operation.
InOp(pc) == pc \in {"w_in", "show_in", "fclear_in", "fshow_in", "clear_in",
                    "sd_clear_in", "sd_show_in", "sd_close_in", "ax_clear_in"}
Inside ==
    { TaskThread(t) : t \in { u \in Tasks : InOp(task[u].pc) } }
        \cup { [kind |-> "ctx", c |-> c, t |-> 0] : c \in { d \in Ctxs : InOp(ctx[d].pc) } }

\* C8: at most one MultiLED operation is executing at any time, whether the
\* animation thread, a handler thread or the shutdown path runs it.
C8_OneOperationAtATime == Cardinality(Inside) <= 1

\* C8 witness: an animation thread is inside an operation while shutdown
\* waits at the lock for its own.
C8_Witness ==
    /\ \E t \in Tasks : InOp(task[t].pc)
    /\ \E c \in {"main", "sig"} : ctx[c].pc \in LockPcs

\* shutdown has completed its self.leds.clear()
TeardownBegun ==
    \/ teardowns > 0
    \/ \E c \in {"main", "sig"} :
         ctx[c].pc \in {"sd_show", "sd_show_in", "sd_close", "sd_close_in"}

\* C9 (as claimed, for an animation whose start handler has returned and
\* which shutdown has stopped): once shutdown has done its clear, no animation
\* thread executes a pixel write or a show of a frame.
C9_NoFrameDuringTeardown ==
    ~( /\ TeardownBegun /\ Quiet /\ ~playing
       /\ \E t \in Tasks : task[t].pc \in {"w_in", "show_in"} )

\* The upper-case letter of a lower-case one.
UpperChar(ch) ==
    IF \E i \in DOMAIN LowerCase : LowerCase[i] = ch
    THEN UpperCase[CHOOSE i \in DOMAIN UpperCase : LowerCase[i] = ch]
    ELSE ch

\* The value is the string `word` written in some mix of letter cases.
AnyCase(v, word) ==
    /\ v.type = "str"
    /\ Len(v.s) = Len(word)
    /\ \A k \in DOMAIN word : v.s[k] \in {word[k], UpperChar(word[k])}

\* C10: a player.state message whose state is "playing" in any letter case
\* enters _handle_playing_started like a play message, "paused" or "stopped"
\* in any letter case enters _handle_playing_stopped like a pause message,
\* and any other payload returns at once; dispatching changes nothing else.
C10_StateNormalized ==
    [][\A c \in Handlers :
         (ctx[c].pc = "on_msg" /\ ctx[c].ev.topic = StateTopic /\ ctx'[c] # ctx[c])
         => LET d == ctx[c].ev.data
                v == d.state
                start == d.has /\ AnyCase(v, SPlaying)
                stop == d.has /\ (AnyCase(v, SPaused) \/ AnyCase(v, SStopped))
            IN  /\ start => ctx'[c].pc = "start_check"
                /\ stop => ctx'[c].pc = "stop_check"
                /\ ~start /\ ~stop => ctx'[c] = IdleFrame
                /\ UNCHANGED <<playing, stopEvent, animThread, task, lock,
                               dstate, last>>]_vars

\* C10 witness: {state: "PAUSED"} has been routed to the stop handler while
\* the animation is running.
C10_Witness ==
    \E c \in Handlers :
        /\ ctx[c].pc = "stop_check"
        /\ ctx[c].ev = Msg(StateTopic, Data(StrVal(<<"P", "A", "U", "S", "E", "D">>)))
        /\ playing /\ Running # {}

\* The frame is inside shutdown(): between its entry and its return.
InShutdown(c) ==
    ctx[c].pc \in {"sd_check", "sd_set", "stop_check", "stop_flag", "stop_event",
                   "stop_take", "stop_null", "stop_join", "clear", "clear_in",
                   "sd_clear", "sd_clear_in", "sd_show", "sd_show_in",
                   "sd_close", "sd_close_in"}

\* C11: shutdown() always returns, on the main thread and in the signal
\* handler, whatever the animation thread is doing when it is called: the
\* join is bounded and the lock is handed back after every operation.
C11_ShutdownReturns ==
    /\ InShutdown("main") ~> ~InShutdown("main")
    /\ InShutdown("sig") ~> ~InShutdown("sig")

\* C11 witness: the signal handler's shutdown, which interrupted shutdown on
\* the main thread, waits at the lock while the animation thread is inside an
\* operation.
C11_Witness ==
    /\ InShutdown("main")
    /\ ctx["sig"].pc \in LockPcs
    /\ lock.owner.kind = "task"

\* Every active driver shows a black frame and holds one in its buffer.
AllBlack ==
    \A i \in Drivers : dstate[i].shown = "black" /\ dstate[i].buf = "black"

\* The last signal processed is a stop and no start signal is being handled.
StopWasLast ==
    /\ last = "stop"
    /\ \A c \in Handlers :
         /\ ctx[c].pc \notin {"start_check", "start_flag", "start_event",
                               "start_spawn", "start_assign"}
         /\ ctx[c].pc = "on_msg" => Subscription(ctx[c].ev) # "start_check"

\* C12: if from some point on the last signal processed is a stop (no start
\* is processed after it), then from some point on every active driver shows
\* black and stays black -- the abandoned animation thread ends with its own
\* clear and show, which overwrite the frame it wrote after the handler's
\* clear.
C12_BlackAfterStop == (<>[]StopWasLast) => <>[]AllBlack

\* C12 witness: the stop handler has returned after its clear, and the
\* animation thread it gave up waiting for has put a coloured frame on a
\* device since.
C12_Witness ==
    /\ Quiet /\ last = "stop" /\ ~playing
    /\ Running # {}
    /\ \E i \in Drivers : dstate[i].shown = "color"

\* Every backend that was enabled has a pixel count of 0.
AllZero == \A i \in DOMAIN devs : devs[i].num_pixels = 0

\* C13 (as claimed): when every enabled backend has a pixel count of 0, the
\* plugin behaves as one without an active driver: no start signal sets the
\* playing flag or launches an animation thread.
C13_ZeroCountDisabled ==
    AllZero =>
        /\ \A t \in Tasks : task[t].pc = "unborn"
        /\ ~playing

\* C14: a plugin without an active driver -- every enabled backend degraded
\* to a NullLED, or none enabled -- is inert under every bus message and
\* every shutdown: the playing flag stays clear, no animation thread is
\* created, the handle stays None and the cancellation flag untouched.
C14_InertWithoutDrivers ==
    Drivers = {} =>
        /\ ~playing /\ ~stopEvent /\ animThread = 0
        /\ \A t \in Tasks : task[t].pc = "unborn"
        /\ \A c \in Ctxs : ctx[c].pc \notin {"start_flag", "start_event", "start_spawn",
                                             "start_assign", "stop_flag", "stop_event",
                                             "stop_take", "stop_null", "stop_join",
                                             "clear", "clear_in"}

\* C14 witness: all three backends were enabled and degraded to NullLED; a
\* start signal has been processed and shutdown has run to its end.
C14_Witness ==
    /\ Len(devs) = 3 /\ Drivers = {}
    /\ last = "start" /\ teardowns = 1 /\ Idle("main")

\* C15 (as claimed): once shutdown has run and returned on a plugin that no
\* play message had reached before, the controller stays Idle for good: no
\* play message delivered afterwards sets the playing flag or launches an
\* animation thread.
C15_IdleAfterShutdown ==
    []((teardowns > 0 /\ delivered = 0 /\ Idle("main") /\ Idle("sig"))
         => [](~playing /\ \A t \in Tasks : task[t].pc = "unborn"))

\* The pixel counts of the active drivers.
ActiveCounts == { devs[i].num_pixels : i \in Drivers }

\* C16: num_pixels of the composite is 0 when it has no active driver, and
\* otherwise the largest pixel count among its active drivers (5 for active
\* drivers of 0, 5 and 3 pixels); it is a count of an active driver, so a
\* falsy device never contributes.
C16_NumPixelsIsMax ==
    calls.op = "num_pixels" =>
        /\ Drivers = {} => calls.n = 0
        /\ Drivers # {} =>
              /\ calls.n \in ActiveCounts
              /\ \A m \in ActiveCounts : m <= calls.n
        /\ ActiveCounts = {0, 5, 3} => calls.n = 5

\* C16 witness: num_pixels was read on a composite whose three active
\* drivers have 5, 3 and 0 pixels.
C16_Witness ==
    /\ calls.op = "num_pixels" /\ calls.n = 5
    /\ Cardinality(Drivers) = 3 /\ ActiveCounts = {0, 3, 5}

\* The thread is inside the `while` loop of _rainbow.
InLoop(t) == task[t].pc \in {"loop", "w", "w_in", "show", "show_in", "sleep"}

\* C17 (as claimed): once the cancellation flag is set, every animation
\* thread that is in its loop leaves the loop, at the flag check that follows.
C17_FlagObserved ==
    \A t \in Tasks : (stopEvent /\ InLoop(t)) ~> ~InLoop(t)

\* C18: an animation thread leaves its loop only into its `finally` block,
\* whether the flag was set, playing was cleared or the frame raised; there
\* it runs clear(), which leaves every active driver black in its buffer and
\* on the hardware, and then show(), and only then ends.
C18_FinalClearAndShow ==
    [][\A t \in Tasks :
         /\ (InLoop(t) /\ task'[t].pc \notin {"loop", "w", "w_in", "show", "show_in", "sleep"})
              => task'[t].pc = "fclear"
         /\ (task[t].pc = "fclear_in" /\ task'[t].pc # "fclear_in")
              => /\ task'[t].pc = "fshow"
                 /\ \A i \in Drivers :
                      dstate'[i].buf = "black" /\ dstate'[i].shown = "black"
         /\ (Alive(t) /\ task'[t].pc = "dead")
              => /\ task[t].pc = "fshow_in"
                 /\ \A i \in Drivers : dstate'[i].shown = dstate'[i].buf]_vars

\* C18 witness: time.sleep(1.0 / 0) raised in a frame of a running animation
\* (nobody asked it to stop), and the thread is in its final show.
C18_Witness ==
    \E t \in Tasks :
        /\ task[t].pc = "fshow_in"
        /\ fps = 0 /\ playing /\ ~stopEvent

\* C19 (as claimed): the pixel indices an animation frame writes are those
\* below num = max(1, num_pixels) of the composite; a composite that reports
\* 0 pixels is written at index 0 only.
C19_FrameIndices ==
    \A t \in Tasks :
        task[t].pc \in {"w", "w_in"} => task[t].x < Max(1, num_pixels)

\* close() or deinit() has been called on an active driver.
SomeReleased == \E i \in Drivers : dstate[i].rel > 0

\* C20 (as claimed): once a driver has been released, no step calls a driver
\* again: no animation thread and no frame runs the body of a MultiLED
\* operation, and no exit hook of a released device runs.
C20_NoUseAfterRelease ==
    [][SomeReleased =>
         /\ \A t \in Tasks : InOp(task[t].pc) => task'[t] = task[t]
         /\ \A c \in Ctxs : InOp(ctx[c].pc) => ctx'[c] = ctx[c]
         /\ ( /\ ctx["main"].pc = "ax_dev" /\ ctx["main"].t \in Drivers
              /\ dstate[ctx["main"].t].rel > 0 )
              => ctx'["main"] = ctx["main"]]_vars

====
